---- MODULE Spec2Model ----
(***************************************************************************)
(* Model of the manual retrieve -> (optional rerank) -> generate pipeline  *)
(* of "Lab 2/2.4 Bedrock Inference with Reranking.ipynb":                  *)
(*   search_kb_with_optional_rerank  (notebook lines 120-179)              *)
(*   retrieve_and_generate           (notebook lines 197-228)              *)
(* A string is a sequence of one-character strings; the literal pieces of  *)
(* an f-string are kept character by character where a claim reads them    *)
(* (the ellipsis) and as one token where none does ("Document ", ...).     *)
(* The three remote services are the environment: each call is issued by   *)
(* one step of the code and answered (or failed) by a later step.          *)
(***************************************************************************)
EXTENDS Integers, Sequences, FiniteSets, TLC

\* ------------------------------------------------------------ constants
\* text[:300] / doc[:300]
TruncLen == 300
\* "numberOfResults": 5 of the retrieve and of the rerank request
NumberOfResults == 5
\* docs[:3]
ContextDocs == 3

\* --------------------------------------------------------------- bounds
\* the longest retrieved text has TruncLen + MaxExtra characters
MaxExtra == 1
\* the services' scores are drawn from 1..MaxScore
MaxScore == 2

VARIABLES
    pc,               \* position of the run: idle, retrieve, rerank, generate, done, error
    entry,            \* function the notebook cell called: "search" or "rag"
    query,
    use_reranking,
    model_arn,        \* rerank model ARN: "" (None or empty) or an ARN
    kb_response,      \* retrievalResults the retrieve call returned
    documents,        \* local of search_kb_with_optional_rerank
    original_results, \* local of search_kb_with_optional_rerank
    sources,          \* document texts submitted with the rerank call
    reranked,         \* results the rerank call returned
    results,          \* value search_kb_with_optional_rerank returned to its caller
    docs,             \* local of retrieve_and_generate
    source_type,      \* local of retrieve_and_generate
    prompt,           \* prompt sent with the generate call
    answer,           \* value retrieve_and_generate returned
    error,            \* exception that ended the run, "" if none
    inflight,         \* remote calls issued and not yet answered
    log               \* remote-call events of the run, in order

vars == <<pc, entry, query, use_reranking, model_arn, kb_response, documents,
          original_results, sources, reranked, results, docs, source_type,
          prompt, answer, error, inflight, log>>

\* ------------------------------------------------------- string helpers
Min(a, b) == IF a < b THEN a ELSE b

\* n copies of the character c
Rep(c, n) == [i \in 1..n |-> c]

\* Python s[:n]
Take(s, n) == SubSeq(s, 1, Min(n, Len(s)))

\* "..."
Ellipsis == <<".", ".", ".">>

\* " ".join(parts)
RECURSIVE Join(_, _)
Join(sep, parts) ==
    IF parts = <<>> THEN <<>>
    ELSE IF Len(parts) = 1 THEN parts[1]
    ELSE parts[1] \o sep \o Join(sep, Tail(parts))

\* the dict search_kb_with_optional_rerank has not returned
NoResults == [k \in {} |-> <<>>]

\* ------------------------------------------- search_kb_with_optional_rerank
\* item.get("span", "") if isinstance(item, dict) else str(item)
ItemText(item) ==
    IF item.dict
    THEN IF "span" \in DOMAIN item THEN item.span ELSE <<>>
    ELSE item.str

\* text = "" ; if "content" in result and "text" in result["content"]: " ".join(...)
ExtractText(result) ==
    IF "content" \in DOMAIN result /\ "text" \in DOMAIN result.content
    THEN Join(<<" ">>, [i \in 1..Len(result.content.text) |->
                           ItemText(result.content.text[i])])
    ELSE <<>>

\* StoreText with the comparison written >= : a text of exactly 300 characters
\* gets the ellipsis
StoreTextInclusive(text) ==
    IF Len(text) >= TruncLen THEN Take(text, TruncLen) \o Ellipsis ELSE text

\* text[:300] + "..." if len(text) > 300 else text
StoreText(text) ==
    IF Len(text) > TruncLen THEN Take(text, TruncLen) \o Ellipsis ELSE text

\* result.get("scoreValue", 0)
ScoreValue(result) ==
    IF "scoreValue" \in DOMAIN result THEN result.scoreValue ELSE 0

\* the original_results list the loop over retrievalResults appends to
BuildOriginalResults(resp) ==
    [i \in 1..Len(resp) |->
        [position |-> i,
         score    |-> ScoreValue(resp[i]),
         text     |-> StoreText(ExtractText(resp[i]))]]

\* BuildDocuments appending a text only when it is not empty
BuildDocumentsSkippingEmpty(resp) ==
    LET NonEmpty(t) == t # <<>>
    IN  SelectSeq([i \in 1..Len(resp) |-> ExtractText(resp[i])], NonEmpty)

\* the documents list the loop over retrievalResults appends to
BuildDocuments(resp) == [i \in 1..Len(resp) |-> ExtractText(resp[i])]

\* ShouldRerank without the use_reranking test
ShouldRerankIgnoringFlag(use, arn, dlist) == arn # "" /\ dlist # <<>>

\* ShouldRerank without the documents test
ShouldRerankIgnoringDocuments(use, arn, dlist) == use /\ arn # ""

\* ShouldRerank without the model_arn test
ShouldRerankIgnoringArn(use, arn, dlist) == use /\ dlist # <<>>

\* if use_reranking and model_arn and documents:
ShouldRerank(use, arn, dlist) == use /\ arn # "" /\ dlist # <<>>

\* result.get("index", 0)
ResultIndex(result) == IF "index" \in DOMAIN result THEN result.index ELSE 0

\* OriginalPosition without the + 1
OriginalPositionZeroBased(idx) == idx

\* "original_position": idx + 1
OriginalPosition(idx) == idx + 1

\* NewPosition without the + 1
NewPositionZeroBased(acc) == Len(acc)

\* "new_position": len(reranked_results) + 1
NewPosition(acc) == Len(acc) + 1

\* RelevanceScore reading the key "relevance_score", which the response lacks
RelevanceScoreWrongKey(result) ==
    IF "relevance_score" \in DOMAIN result THEN result.relevance_score ELSE 0

\* "relevance_score": result.get("relevanceScore", 0)
RelevanceScore(result) ==
    IF "relevanceScore" \in DOMAIN result THEN result.relevanceScore ELSE 0

\* "text": documents[idx][:300] + "..."      (documents is 0-based in the code)
RerankedText(dlist, idx) == Take(dlist[idx + 1], TruncLen) \o Ellipsis

\* reranked_results = [] ; for result in reranked.get("results", []): append
RECURSIVE BuildRerankedResults(_, _, _)
BuildRerankedResults(acc, rest, dlist) ==
    IF rest = <<>> THEN acc
    ELSE LET result == Head(rest)
             idx    == ResultIndex(result)
         IN  BuildRerankedResults(
                 Append(acc, [original_position |-> OriginalPosition(idx),
                              new_position      |-> NewPosition(acc),
                              relevance_score   |-> RelevanceScore(result),
                              text              |-> RerankedText(dlist, idx)]),
                 Tail(rest), dlist)

\* return {"original_results": original_results}
PlainResult(orig) == [original_results |-> orig]

\* return {"original_results": original_results, "reranked_results": reranked_results}
RerankedResult(orig, rr) == [original_results |-> orig, reranked_results |-> rr]

\* ---------------------------------------------------- retrieve_and_generate
\* [doc["text"] for doc in dlist]
TextsOf(dlist) == [i \in 1..Len(dlist) |-> dlist[i].text]

\* if use_reranking and "reranked_results" in results: ... else: ...
SelectDocs(use, res) ==
    IF use /\ "reranked_results" \in DOMAIN res
    THEN [docs |-> TextsOf(res.reranked_results), source_type |-> "reranked"]
    ELSE [docs |-> TextsOf(res.original_results), source_type |-> "vector search"]

\* str(i+1) for the documents of the context
Digit(i) == <<"1", "2", "3">>[i]

\* ContextEntry without the [:300] cut of the document
ContextEntryUncut(i, doc) == <<"Document ", Digit(i), ": ">> \o doc \o Ellipsis

\* f"Document {i+1}: {doc[:300]}..."
ContextEntry(i, doc) == <<"Document ", Digit(i), ": ">> \o Take(doc, TruncLen) \o Ellipsis

\* "\n\n".join([... for i, doc in enumerate(docs[:3])])
BuildContext(dlist) ==
    Join(<<"\n\n">>,
         [i \in 1..Min(ContextDocs, Len(dlist)) |-> ContextEntry(i, dlist[i])])

\* f"Query: {query}\n\nContext from {source_type}:\n{context}\n\nAnswer:"
BuildPrompt(q, st, context) ==
    <<"Query: ", q, "\n\nContext from ", st, ":\n">> \o context \o <<"\n\nAnswer:">>

\* -------------------------------------------------------- the environment
\* opaque score values a service may report
Scores == 1..MaxScore

\* shapes of retrievalResults entries: 0 content without text and no score,
\* 1 a two-character string, 2 one span of exactly TruncLen characters,
\* 2 + e a string whose joined text has TruncLen + e characters (e in 1..MaxExtra)
NumKinds == 3 + MaxExtra

Plain(c) == [dict |-> FALSE, str |-> <<c>>]

Hit(kind, sc) ==
    CASE kind = 0 -> [content |-> [type |-> "IMAGE"]]
      [] kind = 1 -> [content |-> [text |-> <<Plain("x"), Plain("y")>>], scoreValue |-> sc]
      [] kind = 2 -> [content |-> [text |-> <<[dict |-> TRUE, span |-> Rep("a", TruncLen)]>>],
                      scoreValue |-> sc]
      [] OTHER    -> [content |-> [text |-> <<[dict |-> TRUE, span |-> Rep("b", TruncLen - 1)],
                                              [dict |-> TRUE, span |-> Rep("c", kind - 2)]>>],
                      scoreValue |-> sc]

\* retrievalResults of at most NumberOfResults hits: the hit at rank i of
\* variant v has shape (i + v) % NumKinds
KbResponses ==
    { [i \in 1..n |-> Hit((i + v) % NumKinds, ((i + v) % MaxScore) + 1)] :
        n \in 0..NumberOfResults, v \in 0..(NumKinds - 1) }

\* relevance scores of k results in rank order: the score at rank i is
\* base + i * step (kept in Scores), so the scores may tie, rise or fall
\* along the ranking
ScoreVectors(k) ==
    { [i \in 1..k |-> ((base + i * step) % MaxScore) + 1] :
        base \in 0..(MaxScore - 1), step \in {0, 1, MaxScore - 1} }

\* results of a rerank of n sources: at most NumberOfResults entries in rank
\* order, each naming a different source by its 0-based index
RerankResponses(n) ==
    UNION { { [i \in 1..k |-> [index |-> ix[i], relevanceScore |-> sc[i]]] :
                ix \in { f \in [1..k -> 0..(n - 1)] :
                           \A a, b \in 1..k : a # b => f[a] # f[b] },
                sc \in ScoreVectors(k) } :
            k \in 0..Min(NumberOfResults, n) }

\* query of the example cells
Queries == {"Compare the results between 2022 and 2023"}

\* rerank_model_arn: None or "" , or an ARN
ModelArns == {"", "arn:aws:bedrock:us-west-2::foundation-model/cohere.rerank-v3-5:0"}

\* content[0].text of the model's response
Answers == {"generated text"}

Event(op, ev) == [op |-> op, ev |-> ev]

\* number of events ev of the remote call op in the run so far
Count(op, ev) == Cardinality({i \in 1..Len(log) : log[i] = Event(op, ev)})

\* number of times the remote call op was issued in the run so far
Issued(op) == Count(op, "call")

\* ---------------------------------------------------------------- actions
Init ==
    /\ pc = "idle"
    /\ entry = ""
    /\ query = ""
    /\ use_reranking = FALSE
    /\ model_arn = ""
    /\ kb_response = <<>>
    /\ documents = <<>>
    /\ original_results = <<>>
    /\ sources = <<>>
    /\ reranked = <<>>
    /\ results = NoResults
    /\ docs = <<>>
    /\ source_type = ""
    /\ prompt = <<>>
    /\ answer = ""
    /\ error = ""
    /\ inflight = {}
    /\ log = <<>>

\* Start issuing the rerank call together with the retrieve call
StartConcurrent ==
    /\ pc = "idle"
    /\ \E e \in {"search", "rag"}, q \in Queries, u \in BOOLEAN, arn \in ModelArns :
          /\ entry' = e
          /\ query' = q
          /\ use_reranking' = u
          /\ model_arn' = arn
    /\ pc' = "retrieve"
    /\ inflight' = inflight \cup {"retrieve", "rerank"}
    /\ log' = log \o <<Event("retrieve", "call"), Event("rerank", "call")>>
    /\ UNCHANGED <<kb_response, documents, original_results, sources, reranked,
                   results, docs, source_type, prompt, answer, error>>

\* a cell calls search_kb_with_optional_rerank or retrieve_and_generate; the
\* code runs up to client.retrieve(...)
Start ==
    /\ pc = "idle"
    /\ \E e \in {"search", "rag"}, q \in Queries, u \in BOOLEAN, arn \in ModelArns :
          /\ entry' = e
          /\ query' = q
          /\ use_reranking' = u
          /\ model_arn' = arn
    /\ pc' = "retrieve"
    /\ inflight' = inflight \cup {"retrieve"}
    /\ log' = Append(log, Event("retrieve", "call"))
    /\ UNCHANGED <<kb_response, documents, original_results, sources, reranked,
                   results, docs, source_type, prompt, answer, error>>

\* search_kb_with_optional_rerank returns res; its locals are gone. Called
\* from a cell the run is over; called from retrieve_and_generate the code runs
\* on to client.invoke_model(...)
SearchReturns(res, fl, lg) ==
    /\ results' = res
    /\ documents' = <<>>
    /\ original_results' = <<>>
    /\ IF entry = "search"
       THEN /\ pc' = "done"
            /\ inflight' = fl
            /\ log' = lg
            /\ UNCHANGED <<docs, source_type, prompt>>
       ELSE LET sel == SelectDocs(use_reranking, res)
            IN  /\ docs' = sel.docs
                /\ source_type' = sel.source_type
                /\ prompt' = BuildPrompt(query, sel.source_type, BuildContext(sel.docs))
                /\ pc' = "generate"
                /\ inflight' = fl \cup {"generate"}
                /\ log' = Append(lg, Event("generate", "call"))

\* an exception leaves the function(s): nothing is returned to the caller
Raises(op) ==
    /\ pc' = "error"
    /\ error' = op
    /\ inflight' = inflight \ {op}
    /\ log' = Append(log, Event(op, "error"))
    /\ documents' = <<>>
    /\ original_results' = <<>>
    /\ UNCHANGED <<entry, query, use_reranking, model_arn, kb_response, sources,
                   reranked, results, docs, source_type, prompt, answer>>

\* client.retrieve returns: the loop fills original_results and documents, then
\* the code either issues client.rerank or returns the plain result
RetrieveOk ==
    /\ pc = "retrieve"
    /\ \E resp \in KbResponses :
          LET orig == BuildOriginalResults(resp)
              dl   == BuildDocuments(resp)
              fl   == inflight \ {"retrieve"}
              lg   == Append(log, Event("retrieve", "return"))
          IN  /\ kb_response' = resp
              /\ IF ShouldRerank(use_reranking, model_arn, dl)
                 THEN /\ documents' = dl
                      /\ original_results' = orig
                      /\ sources' = dl
                      /\ pc' = "rerank"
                      /\ inflight' = fl \cup {"rerank"}
                      /\ log' = Append(lg, Event("rerank", "call"))
                      /\ UNCHANGED <<results, docs, source_type, prompt>>
                 ELSE /\ SearchReturns(PlainResult(orig), fl, lg)
                      /\ UNCHANGED sources
    /\ UNCHANGED <<entry, query, use_reranking, model_arn, reranked, answer, error>>

\* RetrieveFail retrying the call once before it gives up
RetrieveFailRetry ==
    /\ pc = "retrieve"
    /\ IF Issued("retrieve") < 2
       THEN /\ log' = log \o <<Event("retrieve", "error"), Event("retrieve", "call")>>
            /\ UNCHANGED <<pc, entry, query, use_reranking, model_arn, kb_response,
                           documents, original_results, sources, reranked, results,
                           docs, source_type, prompt, answer, error, inflight>>
       ELSE Raises("retrieve")

\* client.retrieve raises
RetrieveFail ==
    /\ pc = "retrieve"
    /\ Raises("retrieve")

\* client.rerank returns: the loop fills reranked_results and the function returns
RerankOk ==
    /\ pc = "rerank"
    /\ \E resp \in RerankResponses(Len(sources)) :
          /\ reranked' = resp
          /\ SearchReturns(
                 RerankedResult(original_results,
                                BuildRerankedResults(<<>>, resp, documents)),
                 inflight \ {"rerank"},
                 Append(log, Event("rerank", "return")))
    /\ UNCHANGED <<entry, query, use_reranking, model_arn, kb_response, sources,
                   answer, error>>

\* RerankFail caught inside search_kb_with_optional_rerank, which then returns
\* the plain result
RerankFailFallsBack ==
    /\ pc = "rerank"
    /\ error' = "rerank"
    /\ SearchReturns(PlainResult(original_results), inflight \ {"rerank"},
                     Append(log, Event("rerank", "error")))
    /\ UNCHANGED <<entry, query, use_reranking, model_arn, kb_response, sources,
                   reranked, answer>>

\* client.rerank raises
RerankFail ==
    /\ pc = "rerank"
    /\ Raises("rerank")

\* client.invoke_model returns: retrieve_and_generate returns content[0].text
GenerateOk ==
    /\ pc = "generate"
    /\ \E a \in Answers : answer' = a
    /\ pc' = "done"
    /\ inflight' = inflight \ {"generate"}
    /\ log' = Append(log, Event("generate", "return"))
    /\ UNCHANGED <<entry, query, use_reranking, model_arn, kb_response, documents,
                   original_results, sources, reranked, results, docs, source_type,
                   prompt, error>>

\* client.invoke_model raises
GenerateFail ==
    /\ pc = "generate"
    /\ Raises("generate")

Next ==
    \/ Start
    \/ RetrieveOk
    \/ RetrieveFail
    \/ RerankOk
    \/ RerankFail
    \/ GenerateOk
    \/ GenerateFail

Spec == Init /\ [][Next]_vars

\* ------------------------------------------------------------- properties
\* retrieve_and_generate has chosen its document set and built the prompt
Selected == prompt # <<>>

\* search_kb_with_optional_rerank has returned a dict with reranked_results
HasReranked == "reranked_results" \in DOMAIN results

\* the texts of the original_results the caller received
OriginalTexts == [i \in 1..Len(results.original_results) |-> results.original_results[i].text]

\* C1: with use_reranking = False the documents selected for the context are
\* the texts of original_results in retrieval order (positions 1..n), the
\* label in the prompt is "vector search", no rerank call is issued and the
\* result carries no reranked_results.
C1_NoRerankSelectsOriginal ==
    (~use_reranking /\ Selected) =>
        /\ docs = OriginalTexts
        /\ \A i \in 1..Len(results.original_results) :
              results.original_results[i].position = i
        /\ Len(results.original_results) = Len(kb_response)
        /\ source_type = "vector search"
        /\ prompt[4] = "vector search"
        /\ ~HasReranked
        /\ Issued("rerank") = 0

C1_Witness ==
    /\ ~use_reranking
    /\ model_arn # ""
    /\ Selected
    /\ Len(docs) = NumberOfResults
    /\ pc = "done"

\* C2: with use_reranking = True and a retrieve call that returned no hits, no
\* rerank call is issued and the returned dict has the key original_results
\* and no key reranked_results.
C2_EmptyRetrievalSkipsRerank ==
    (use_reranking /\ Count("retrieve", "return") = 1 /\ kb_response = <<>>) =>
        /\ Issued("rerank") = 0
        /\ DOMAIN results = {"original_results"}
        /\ results.original_results = <<>>

C2_Witness ==
    /\ use_reranking
    /\ model_arn # ""
    /\ Count("retrieve", "return") = 1
    /\ kb_response = <<>>
    /\ entry = "search"
    /\ pc = "done"

\* C3: the generation context is built from the original results (label
\* "vector search") whenever reranking was not requested, was skipped, or the
\* rerank call returned an empty results list.
C3_EmptyRerankFallsBackToOriginal ==
    (Selected /\ (~use_reranking \/ ~HasReranked \/ results.reranked_results = <<>>)) =>
        /\ docs = OriginalTexts
        /\ source_type = "vector search"

\* C4 as claimed: after a failed rerank call the caller still holds the
\* original_results computed from the retrieve response, and no generate call
\* was issued.
C4_OriginalResultsSurviveRerankFailure ==
    (error = "rerank") =>
        /\ "original_results" \in DOMAIN results
        /\ Len(results.original_results) = Len(kb_response)
        /\ Issued("generate") = 0

\* C4 as amended: a failed rerank call ends the run with the error; the caller
\* receives no result dict (neither original_results nor reranked_results), no
\* generate call is issued and no answer is returned.
C4_RerankFailureReturnsNothing ==
    (error = "rerank") =>
        /\ pc = "error"
        /\ Count("retrieve", "return") = 1
        /\ results = NoResults
        /\ Issued("generate") = 0
        /\ answer = ""

C4_Witness ==
    /\ error = "rerank"
    /\ entry = "rag"
    /\ use_reranking
    /\ Len(kb_response) = NumberOfResults

\* C5: when the retrieve call or the rerank call fails, that call was issued
\* exactly once, no remote call of a later stage is issued, no call is left
\* outstanding, and the run has ended with the error and without an answer.
C5_FailureAbortsWithoutRetry ==
    (error \in {"retrieve", "rerank"}) =>
        /\ Issued(error) = 1
        /\ Count(error, "error") = 1
        /\ error = "retrieve" => Issued("rerank") = 0
        /\ Issued("generate") = 0
        /\ inflight = {}
        /\ pc = "error"
        /\ answer = ""
        /\ ~ENABLED Next

C5_Witness ==
    /\ error = "retrieve"
    /\ entry = "rag"
    /\ use_reranking
    /\ model_arn # ""
    /\ pc = "error"

\* the set of original_position values of the reranked results
OriginalPositions ==
    {results.reranked_results[i].original_position :
        i \in 1..Len(results.reranked_results)}

\* C6: reranked_results has at most as many entries as documents were
\* submitted to the rerank call (a non-empty list), and every original_position
\* is a 1-based index into the submitted list.
C6_RerankedWithinSubmitted ==
    HasReranked =>
        /\ sources # <<>>
        /\ Len(results.reranked_results) <= Len(sources)
        /\ \A i \in 1..Len(results.reranked_results) :
              /\ results.reranked_results[i].original_position >= 1
              /\ results.reranked_results[i].original_position <= Len(sources)

C6_Witness ==
    /\ HasReranked
    /\ Len(sources) = 4
    /\ Len(results.reranked_results) = 2
    /\ results.reranked_results[1].original_position = 4
    /\ results.reranked_results[2].original_position = 1

\* C7: the new_position values of reranked_results are 1, 2, ..., N in list
\* order, N being the number of results the rerank call returned, whatever the
\* relevance scores are.
C7_NewPositionsContiguous ==
    HasReranked =>
        /\ Len(results.reranked_results) = Len(reranked)
        /\ \A i \in 1..Len(results.reranked_results) :
              results.reranked_results[i].new_position = i

\* three results whose scores rise along the ranking: the positions follow the
\* order of the response, not the scores
C7_Witness ==
    /\ HasReranked
    /\ Len(results.reranked_results) = 3
    /\ results.reranked_results[1].relevance_score
         < results.reranked_results[2].relevance_score
    /\ results.reranked_results[3].new_position = 3

\* the reranked results carry pairwise distinct original positions out of
\* 1..NumberOfResults and the scores of the response, entry by entry
FiveDocsPermutationAndScores ==
    /\ Len(results.reranked_results) <= NumberOfResults
    /\ OriginalPositions \subseteq 1..NumberOfResults
    /\ Cardinality(OriginalPositions) = Len(results.reranked_results)
    /\ Len(results.reranked_results) = Len(reranked)
    /\ \A i \in 1..Len(results.reranked_results) :
          results.reranked_results[i].relevance_score = reranked[i].relevanceScore

\* C8 as claimed: with reranking on and 5 documents retrieved, reranked_results
\* has between 1 and 5 entries, its original_position values are pairwise
\* distinct members of 1..5 and each relevance_score is the service's score.
C8_FiveDocsOneToFiveEntries ==
    (HasReranked /\ Len(kb_response) = NumberOfResults) =>
        /\ Len(results.reranked_results) >= 1
        /\ FiveDocsPermutationAndScores

\* C8 as amended: the same with between 0 and 5 entries (the list is empty when
\* the rerank call returns no results).
C8_FiveDocsUpToFiveEntries ==
    (HasReranked /\ Len(kb_response) = NumberOfResults) =>
        /\ Len(results.reranked_results) >= 0
        /\ FiveDocsPermutationAndScores

C8_Witness ==
    /\ HasReranked
    /\ Len(kb_response) = NumberOfResults
    /\ Len(results.reranked_results) = NumberOfResults
    /\ results.reranked_results[1].original_position = NumberOfResults
    /\ results.reranked_results[1].relevance_score = MaxScore
    /\ results.reranked_results[2].relevance_score = 1

\* position in the log of the first event ev of the remote call op, 0 if none
FirstAt(op, ev) ==
    IF Count(op, ev) = 0 THEN 0
    ELSE CHOOSE i \in 1..Len(log) :
            /\ log[i] = Event(op, ev)
            /\ \A j \in 1..(i - 1) : log[j] # Event(op, ev)

\* C9: at most one remote call is outstanding at any time; each of retrieve,
\* rerank and generate is issued at most once per run; retrieve is issued
\* first, rerank only after retrieve has returned, and generate only after
\* retrieve and any rerank have returned.
C9_SequentialCalls ==
    /\ Cardinality(inflight) <= 1
    /\ \A op \in {"retrieve", "rerank", "generate"} : Issued(op) <= 1
    /\ log # <<>> => log[1] = Event("retrieve", "call")
    /\ Issued("rerank") = 1 =>
          /\ Count("retrieve", "return") = 1
          /\ FirstAt("retrieve", "return") < FirstAt("rerank", "call")
    /\ Issued("generate") = 1 =>
          /\ Count("retrieve", "return") = 1
          /\ FirstAt("retrieve", "return") < FirstAt("generate", "call")
          /\ Issued("rerank") = 1 =>
                /\ Count("rerank", "return") = 1
                /\ FirstAt("rerank", "return") < FirstAt("generate", "call")

C9_Witness ==
    /\ pc = "done"
    /\ Len(log) = 6
    /\ Issued("retrieve") = 1
    /\ Issued("rerank") = 1
    /\ Issued("generate") = 1

\* s is the first TruncLen characters of t followed by "..."
IsTruncatedForm(s, t) ==
    /\ Len(s) = Min(Len(t), TruncLen) + 3
    /\ \A k \in 1..Min(Len(t), TruncLen) : s[k] = t[k]
    /\ \A k \in 1..3 : s[Min(Len(t), TruncLen) + k] = "."

\* C10: in original_results a text longer than 300 characters is stored as its
\* first 300 characters followed by "...", and a text of at most 300
\* characters is stored unchanged; in reranked_results the stored text is
\* always the first 300 characters of the document followed by "...".
C10_TruncationOfStoredTexts ==
    /\ \A i \in 1..Len(original_results) :
          IF Len(documents[i]) > 300
          THEN IsTruncatedForm(original_results[i].text, documents[i])
          ELSE original_results[i].text = documents[i]
    /\ "original_results" \in DOMAIN results =>
          \A i \in 1..Len(results.original_results) :
             IF Len(ExtractText(kb_response[i])) > 300
             THEN /\ Len(results.original_results[i].text) = 303
                  /\ IsTruncatedForm(results.original_results[i].text,
                                     ExtractText(kb_response[i]))
             ELSE results.original_results[i].text = ExtractText(kb_response[i])
    /\ HasReranked =>
          \A j \in 1..Len(results.reranked_results) :
             IsTruncatedForm(results.reranked_results[j].text,
                             sources[reranked[j].index + 1])

\* one result dict holding a text stored unchanged at exactly 300 characters, a
\* longer one cut to 300 + "...", and a reranked two-character document
\* that carries the ellipsis
C10_Witness ==
    /\ HasReranked
    /\ \E i \in 1..Len(results.original_results) :
          /\ Len(ExtractText(kb_response[i])) = 300
          /\ Len(results.original_results[i].text) = 300
    /\ \E i \in 1..Len(results.original_results) :
          /\ Len(ExtractText(kb_response[i])) > 300
          /\ Len(results.original_results[i].text) = 303
    /\ \E j \in 1..Len(results.reranked_results) :
          /\ Len(sources[reranked[j].index + 1]) < 300
          /\ Len(results.reranked_results[j].text) = Len(sources[reranked[j].index + 1]) + 3

\* C11: the document texts submitted to the rerank call are, in number and
\* order, the texts of the hits original_results was built from, so every
\* reranked entry carries the text of the hit at its original_position: the
\* same hit the original_results entry of that position was stored from.
C11_OriginalPositionBackReference ==
    HasReranked =>
        /\ Len(sources) = Len(results.original_results)
        /\ Len(sources) = Len(kb_response)
        /\ \A i \in 1..Len(results.original_results) :
              /\ results.original_results[i].position = i
              /\ sources[i] = ExtractText(kb_response[i])
        /\ \A j \in 1..Len(results.reranked_results) :
              LET r == results.reranked_results[j]
                  o == results.original_results[r.original_position]
              IN  /\ o.position = r.original_position
                  /\ IsTruncatedForm(r.text, ExtractText(kb_response[r.original_position]))
                  /\ Len(r.text) = Min(Len(o.text), 300) + 3
                  /\ \A k \in 1..Min(Len(o.text), 300) : r.text[k] = o.text[k]

\* a reranked list whose first entry comes from the third of five hits of
\* different texts, behind a hit without text
C11_Witness ==
    /\ HasReranked
    /\ Len(kb_response) = NumberOfResults
    /\ ExtractText(kb_response[1]) = <<>>
    /\ ExtractText(kb_response[3]) # ExtractText(kb_response[2])
    /\ Len(results.reranked_results) >= 2
    /\ results.reranked_results[1].original_position = 3
    /\ results.reranked_results[1].text
         = Take(ExtractText(kb_response[3]), 300) \o <<".", ".", ".">>

\* number of documents the context may hold: min(3, number of selected docs)
InContext == IF Len(docs) < 3 THEN Len(docs) ELSE 3

\* length of the body of the i-th context entry: at most 300 characters
BodyLen(i) == IF Len(docs[i]) < 300 THEN Len(docs[i]) ELSE 300

\* position in the prompt of the "Document " label of the i-th context entry:
\* behind the five-piece header and, per earlier entry, its label, number,
\* colon, body, three dots and the blank-line separator
RECURSIVE EntryStart(_)
EntryStart(i) == IF i = 1 THEN 6 ELSE EntryStart(i - 1) + 3 + BodyLen(i - 1) + 3 + 1

\* length of the context inside the prompt
ContextLen ==
    IF InContext = 0 THEN 0
    ELSE EntryStart(InContext) + 3 + BodyLen(InContext) + 3 - 6

\* C12: the context of the prompt holds exactly the first min(3, k) documents
\* of the selected set in its order, the i-th labelled "Document i" with the
\* body being the first 300 characters of the selected text followed by "...";
\* no later document appears; the source label is "reranked" exactly when the
\* reranked set was selected.
C12_ContextOfFirstThreeSelected ==
    Selected =>
        /\ Len(prompt) = 5 + ContextLen + 1
        /\ prompt[Len(prompt)] = "\n\nAnswer:"
        /\ Cardinality({p \in 1..Len(prompt) : prompt[p] = "Document "}) = InContext
        /\ \A i \in 1..InContext :
              LET at == EntryStart(i)
              IN  /\ prompt[at] = "Document "
                  /\ prompt[at + 1] = <<"1", "2", "3">>[i]
                  /\ prompt[at + 2] = ": "
                  /\ \A k \in 1..BodyLen(i) : prompt[at + 2 + k] = docs[i][k]
                  /\ \A k \in 1..3 : prompt[at + 2 + BodyLen(i) + k] = "."
                  /\ i < InContext => prompt[at + 2 + BodyLen(i) + 4] = "\n\n"
        /\ (prompt[4] = "reranked") <=> (use_reranking /\ HasReranked)
        /\ IF prompt[4] = "reranked"
           THEN docs = [i \in 1..Len(results.reranked_results) |->
                           results.reranked_results[i].text]
           ELSE prompt[4] = "vector search" /\ docs = OriginalTexts

\* five reranked documents selected, the first of them a stored text of 303
\* characters whose own ellipsis the cut to 300 removes
C12_Witness ==
    /\ Selected
    /\ source_type = "reranked"
    /\ Len(docs) = NumberOfResults
    /\ Len(docs[1]) = 303
    /\ Len(docs[2]) < 300
    /\ Cardinality({p \in 1..Len(prompt) : prompt[p] = "Document "}) = 3

\* C13: once retrieve has returned, a rerank call is issued exactly when
\* use_reranking is true, the model ARN is not empty and at least one document
\* was retrieved. With use_reranking = True and no ARN, no rerank call is
\* issued, the search raises nothing and returns a dict without
\* reranked_results, and retrieve_and_generate uses original_results with the
\* label "vector search".
C13_RerankNeedsFlagArnAndDocuments ==
    /\ Issued("rerank") = 1 =>
          use_reranking /\ model_arn # "" /\ kb_response # <<>>
    /\ Count("retrieve", "return") = 1 =>
          ((Issued("rerank") = 1)
              <=> (use_reranking /\ model_arn # "" /\ Len(kb_response) >= 1))
    /\ (use_reranking /\ model_arn = "" /\ Count("retrieve", "return") = 1) =>
          /\ Issued("rerank") = 0
          /\ error \in {"", "generate"}
          /\ DOMAIN results = {"original_results"}
          /\ Len(results.original_results) = Len(kb_response)
          /\ entry = "search" => pc = "done" /\ error = ""
          /\ entry = "rag" =>
                /\ Selected
                /\ docs = OriginalTexts
                /\ source_type = "vector search"
                /\ prompt[4] = "vector search"

C13_Witness ==
    /\ use_reranking
    /\ model_arn = ""
    /\ entry = "rag"
    /\ pc = "done"
    /\ Len(kb_response) = NumberOfResults
    /\ Len(docs) = NumberOfResults
    /\ answer # ""

====
